---- MODULE Spec2Model ----
(***************************************************************************)
(* City Permitting Agent (city-permitting-streamlit.py).                   *)
(*                                                                         *)
(* The Streamlit script is run top to bottom on every interaction; only    *)
(* st.session_state survives from one run to the next.  A run is modelled  *)
(* as a walk of pc through the script: the initialization guard, the       *)
(* remote calls of initialize_llama_stack one by one, the main content     *)
(* gate, the form submission handler and generate_scorecard.               *)
(*                                                                         *)
(* Text is a sequence of tokens: a token is either one whitespace          *)
(* character (" ", "\n", "\t") or a piece of text without surrounding      *)
(* whitespace.  None and the empty string are both the empty sequence,     *)
(* which is what Python's truth test (not x) cannot tell apart either.     *)
(***************************************************************************)
EXTENDS Integers, Sequences, FiniteSets, TLC

\* Bounds of the model.
MaxAttempts == 2   \* provisioning attempts started in one browser session
FormLen == 1       \* longest single-line form field typed
MaxLen == 2        \* longest multi-line form field in the prompt-rendering runs

VARIABLES
    pc,               \* position of the current script run
    ss,               \* st.session_state
    loc,              \* locals of initialize_llama_stack
    attempt,          \* calls of initialize_llama_stack so far
    uuid,             \* uuid.uuid4() values drawn so far
    calls,            \* remote calls issued by the latest initialize_llama_stack
    prevIds,          \* vector_db_id values of the earlier attempts
    lastFail,         \* the call at which the previous attempt failed, while not ready
    init_result,      \* what the guard at line 178 did in this run
    init_error,       \* text of st.error in the except handler
    submit_button,    \* the form was submitted in this run
    form,             \* the four widgets' values
    page,             \* what the main content area shows
    turnCalls,        \* create_turn calls issued in this run
    response,         \* what the remote create_turn did
    scorecard_report, \* return value of generate_scorecard
    hadReviewError    \* a review of this session has failed before

provVars == <<loc, attempt, uuid, calls, prevIds, lastFail>>
initUi == <<init_result, init_error>>
reviewVars == <<submit_button, form, turnCalls, response, scorecard_report, hadReviewError>>
vars == <<pc, ss, loc, attempt, uuid, calls, prevIds, lastFail, init_result,
          init_error, submit_button, form, page, turnCalls, response,
          scorecard_report, hadReviewError>>

---------------------------------------------------------------------------
\* Values

None == <<>>

\* Python's truth test on None, a string or a handle: not x
Falsy(x) == x = <<>>

IsSpace(ch) == ch \in {" ", "\n", "\t"}

\* All texts over an alphabet, up to a length
Str(chars, n) == UNION {[1..k -> chars] : k \in 0..n}

BaseUrl == "http://localhost:8321"
ModelId == "meta-llama/Llama-4-Scout-17B-16E-Instruct"
ChunkSize == 512
AgentInstructions == "You are a city permitting assistant for food trucks and mobile units. Use embedded city codes and health regulations to pre-screen applications, flag errors, detect compliance gaps, and output a detailed scorecard. Summarize gaps and missing sections."
permit_pdf_urls ==
    << "http://denvergov.org/content/dam/denvergov/Portals/771/documents/PHI/Food/RevisedFoodRulesandregulationsApril2017compressed.pdf",
       "https://denver.prelive.opencities.com/files/assets/public/v/1/public-health-and-environment/documents/phi/2022_mobileunitguide.pdf" >>

\* documents = [Document(document_id=f"permit-doc-{i}", ...) for i, url in enumerate(permit_pdf_urls)]
documents ==
    [i \in 1..Len(permit_pdf_urls) |->
        [document_id |-> <<"permit-doc-", i - 1>>,
         content |-> permit_pdf_urls[i],
         mime_type |-> "application/pdf",
         metadata |-> "DenverPermitPDF"]]

\* tool_groups = [{"name": ..., "args": {"vector_db_ids": [vector_db_id]}}]
tool_groups(vector_db_id) ==
    << [name |-> "builtin::rag/knowledge_search", vector_db_ids |-> <<vector_db_id>>] >>

\* What client.models.list() may return
LlmModel == [identifier |-> ModelId, model_type |-> "llm"]
EmbModelA == [identifier |-> "all-MiniLM-L6-v2", model_type |-> "embedding"]
EmbModelB == [identifier |-> "nomic-embed-text", model_type |-> "embedding"]
Catalogs == { <<>>, <<LlmModel>>, <<LlmModel, EmbModelB, EmbModelA>> }

\* Exceptions the client library raises on a failed remote call
RemoteErrors == {"APIConnectionError"}
\* Classes derived from Exception (StopIteration and AttributeError are)
ExceptionSubclasses == {"StopIteration", "AttributeError", "APIConnectionError"}

\* Session ids the remote create_session may return
SessionIds == { <<"session", 1>>, <<"session", 2>> }

\* Output contents the remote create_turn may return
Contents == { <<"| Section | Status |">>, <<" ", "Score: 80%", "\n">> }

\* Lines 60-70
SessionDefaults ==
    [client |-> None, agent |-> None, session_id |-> None,
     vector_db_id |-> None, initialized |-> FALSE]

NoLocals ==
    [client |-> None, vector_db_id |-> None, embedding_model_id |-> None,
     agent |-> None]

NoForm == [business_name |-> None, commissary |-> None, menu |-> None,
           additional_info |-> None]

NoResponse == [kind |-> "none", content |-> None, exc |-> ""]

\* The locals of a script run, as they are when the run starts
RunStart ==
    /\ init_result = "none"
    /\ init_error = None
    /\ submit_button = FALSE
    /\ form = NoForm
    /\ page = "none"
    /\ turnCalls = <<>>
    /\ response = NoResponse
    /\ scorecard_report = None

Init ==
    /\ pc = "start"
    /\ ss = SessionDefaults
    /\ loc = NoLocals
    /\ attempt = 0
    /\ uuid = 0
    /\ calls = <<>>
    /\ prevIds = {}
    /\ lastFail = "none"
    /\ hadReviewError = FALSE
    /\ RunStart

---------------------------------------------------------------------------
\* initialize_llama_stack and the guard around it

\* NeedsInit with the flag ignored: every run initializes again
NeedsInitAlways == TRUE

\* Line 178: if not st.session_state.initialized
NeedsInit == ~ss.initialized

\* Caught with a handler for the client library's errors only
CaughtApiOnly(e) == e \in RemoteErrors

\* Line 139: except Exception
Caught(e) == e \in ExceptionSubclasses

\* Lines 139-141 and 182-184: the handler of an exception raised at call `op`.
\* An exception that `except Exception` does not catch ends the script run.
Raise(e, op) ==
    /\ IF Caught(e)
          THEN /\ pc' = "main"
               /\ init_result' = "False"
               /\ init_error' = <<"Error initializing Llama Stack: ", e>>
          ELSE /\ pc' = "crashed"
               /\ UNCHANGED initUi
    /\ lastFail' = op
    /\ prevIds' = prevIds \cup {loc.vector_db_id}
    /\ loc' = NoLocals
    /\ UNCHANGED <<ss, attempt, page>>
    /\ UNCHANGED reviewVars

\* Lines 178-184 with the flag set: nothing is called
InitGuardSkip ==
    /\ pc = "start"
    /\ ~NeedsInit
    /\ pc' = "main"
    /\ init_result' = "skipped"
    /\ UNCHANGED <<ss, init_error, page>>
    /\ UNCHANGED provVars
    /\ UNCHANGED reviewVars

\* BeginInitialize with one fixed vector_db_id instead of a fresh one
BeginInitializeFixedId ==
    /\ pc = "start"
    /\ NeedsInit
    /\ attempt < MaxAttempts
    /\ attempt' = attempt + 1
    /\ uuid' = uuid + 1
    /\ loc' = [NoLocals EXCEPT !.client = <<"client", BaseUrl, attempt + 1>>,
                               !.vector_db_id = <<"v", 1>>]
    /\ calls' = <<>>
    /\ pc' = "list_models"
    /\ UNCHANGED <<ss, prevIds, lastFail, page>>
    /\ UNCHANGED initUi
    /\ UNCHANGED reviewVars

\* Lines 74-88: the client object, the constants and the fresh vector_db_id
BeginInitialize ==
    /\ pc = "start"
    /\ NeedsInit
    /\ attempt < MaxAttempts
    /\ attempt' = attempt + 1
    /\ uuid' = uuid + 1
    /\ loc' = [NoLocals EXCEPT !.client = <<"client", BaseUrl, attempt + 1>>,
                               !.vector_db_id = <<"v", uuid + 1>>]
    /\ calls' = <<>>
    /\ pc' = "list_models"
    /\ UNCHANGED <<ss, prevIds, lastFail, page>>
    /\ UNCHANGED initUi
    /\ UNCHANGED reviewVars

\* next(m for m in catalog if m.model_type == "embedding"): the positions that match
EmbeddingPositions(catalog) ==
    {i \in 1..Len(catalog) : catalog[i].model_type = "embedding"}

MinOf(S) == CHOOSE i \in S : \A j \in S : i <= j

\* Line 91-92, when a model matches
embed_model(catalog) == catalog[MinOf(EmbeddingPositions(catalog))]

\* Line 91: client.models.list() and the selection of the embedding model
ListModels ==
    /\ pc = "list_models"
    /\ \/ \E e \in RemoteErrors :
            /\ calls' = Append(calls, [op |-> "list_models", ok |-> FALSE, args |-> <<>>, result |-> <<e>>])
            /\ Raise(e, "list_models")
            /\ UNCHANGED uuid
       \/ \E catalog \in Catalogs :
            /\ calls' = Append(calls, [op |-> "list_models", ok |-> TRUE, args |-> <<>>, result |-> catalog])
            /\ IF EmbeddingPositions(catalog) = {}
                  THEN Raise("StopIteration", "list_models") /\ UNCHANGED uuid
                  ELSE /\ loc' = [loc EXCEPT !.embedding_model_id = <<embed_model(catalog).identifier>>]
                       /\ pc' = "register"
                       /\ UNCHANGED <<ss, attempt, uuid, prevIds, lastFail, page>>
                       /\ UNCHANGED initUi
                       /\ UNCHANGED reviewVars

\* RemoteStep with the failure swallowed: the sequence goes on after a failed call
RemoteStepIgnoringFailure(here, op, args, next) ==
    /\ pc = here
    /\ \E ok \in BOOLEAN :
          calls' = Append(calls, [op |-> op, ok |-> ok, args |-> args, result |-> <<>>])
    /\ pc' = next
    /\ UNCHANGED <<ss, loc, attempt, uuid, prevIds, lastFail, page>>
    /\ UNCHANGED initUi
    /\ UNCHANGED reviewVars

\* One remote call of the provisioning sequence that returns nothing the code keeps
RemoteStep(here, op, args, next) ==
    /\ pc = here
    /\ \/ \E e \in RemoteErrors :
            /\ calls' = Append(calls, [op |-> op, ok |-> FALSE, args |-> args, result |-> <<e>>])
            /\ Raise(e, op)
            /\ UNCHANGED uuid
       \/ /\ calls' = Append(calls, [op |-> op, ok |-> TRUE, args |-> args, result |-> <<>>])
          /\ pc' = next
          /\ UNCHANGED <<ss, loc, attempt, uuid, prevIds, lastFail, page>>
          /\ UNCHANGED initUi
          /\ UNCHANGED reviewVars

\* Lines 93-96: client.vector_dbs.register
RegisterVectorDb ==
    RemoteStep("register", "register_vector_index",
               <<loc.vector_db_id, loc.embedding_model_id>>, "insert")

\* Lines 99-112: client.tool_runtime.rag_tool.insert
InsertDocuments ==
    RemoteStep("insert", "ingest_documents",
               <<loc.vector_db_id, documents, ChunkSize>>, "create_agent")

\* CreateAgent with the agent stored in st.session_state as soon as it exists
CreateAgentStoredEarly ==
    /\ pc = "create_agent"
    /\ LET args == <<ModelId, AgentInstructions, tool_groups(loc.vector_db_id)>> IN
       \/ \E e \in RemoteErrors :
            /\ calls' = Append(calls, [op |-> "create_agent", ok |-> FALSE, args |-> args, result |-> <<e>>])
            /\ Raise(e, "create_agent")
            /\ UNCHANGED uuid
       \/ /\ calls' = Append(calls, [op |-> "create_agent", ok |-> TRUE, args |-> args,
                                      result |-> <<"agent", attempt>>])
          /\ loc' = [loc EXCEPT !.agent = <<"agent", attempt>>]
          /\ ss' = [ss EXCEPT !.agent = <<"agent", attempt>>]
          /\ pc' = "create_session"
          /\ UNCHANGED <<attempt, uuid, prevIds, lastFail, page>>
          /\ UNCHANGED initUi
          /\ UNCHANGED reviewVars

\* Lines 115-126: Agent(client, model=..., instructions=..., tools=tool_groups)
CreateAgent ==
    /\ pc = "create_agent"
    /\ LET args == <<ModelId, AgentInstructions, tool_groups(loc.vector_db_id)>> IN
       \/ \E e \in RemoteErrors :
            /\ calls' = Append(calls, [op |-> "create_agent", ok |-> FALSE, args |-> args, result |-> <<e>>])
            /\ Raise(e, "create_agent")
            /\ UNCHANGED uuid
       \/ /\ calls' = Append(calls, [op |-> "create_agent", ok |-> TRUE, args |-> args,
                                      result |-> <<"agent", attempt>>])
          /\ loc' = [loc EXCEPT !.agent = <<"agent", attempt>>]
          /\ pc' = "create_session"
          /\ UNCHANGED <<ss, attempt, uuid, prevIds, lastFail, page>>
          /\ UNCHANGED initUi
          /\ UNCHANGED reviewVars

\* Lines 131-138: the five assignments to st.session_state and return True
StoreSession(session_id) ==
    /\ ss' = [client |-> loc.client, agent |-> loc.agent, session_id |-> session_id,
              vector_db_id |-> loc.vector_db_id, initialized |-> TRUE]
    /\ init_result' = "True"
    /\ pc' = "main"

\* Line 129: agent.create_session(session_name=f"s-{uuid.uuid4().hex}"), then lines 131-138
CreateSession ==
    /\ pc = "create_session"
    /\ LET args == <<loc.agent, <<"s-", uuid + 1>> >> IN
       \/ \E e \in RemoteErrors :
            /\ calls' = Append(calls, [op |-> "create_session", ok |-> FALSE, args |-> args, result |-> <<e>>])
            /\ uuid' = uuid + 1
            /\ Raise(e, "create_session")
       \/ \E session_id \in SessionIds :
            /\ calls' = Append(calls, [op |-> "create_session", ok |-> TRUE, args |-> args,
                                        result |-> session_id])
            /\ uuid' = uuid + 1
            /\ StoreSession(session_id)
            /\ lastFail' = "none"
            /\ loc' = NoLocals
            /\ UNCHANGED <<attempt, prevIds, init_error, page>>
            /\ UNCHANGED reviewVars

---------------------------------------------------------------------------
\* The form, the submission handler and generate_scorecard

\* str.strip(): leading and trailing whitespace removed
RECURSIVE LStrip(_)
LStrip(s) == IF s # <<>> /\ IsSpace(Head(s)) THEN LStrip(Tail(s)) ELSE s

RECURSIVE RStrip(_)
RStrip(s) ==
    IF s # <<>> /\ IsSpace(s[Len(s)]) THEN RStrip(SubSeq(s, 1, Len(s) - 1)) ELSE s

Strip(s) == RStrip(LStrip(s))

\* application_form_text with the commissary and menu lines exchanged
application_form_text_reordered(f) ==
    <<"\n">>
    \o <<"Business Name:", " ">> \o f.business_name \o <<"\n">>
    \o <<"Menu:", " ">> \o f.menu \o <<"\n">>
    \o <<"Commissary:", " ">> \o f.commissary \o <<"\n">>
    \o <<"Additional Information:", " ">> \o f.additional_info \o <<"\n">>

\* Lines 270-275: the f-string of the submission handler
application_form_text(f) ==
    <<"\n">>
    \o <<"Business Name:", " ">> \o f.business_name \o <<"\n">>
    \o <<"Commissary:", " ">> \o f.commissary \o <<"\n">>
    \o <<"Menu:", " ">> \o f.menu \o <<"\n">>
    \o <<"Additional Information:", " ">> \o f.additional_info \o <<"\n">>

ReviewInstructions == "You are a city permitting AI agent. Using only the embedded city requirements and regulations, review the following food truck permit application submission for completeness and compliance. Generate a scorecard listing missing sections, errors, compliance gaps (with reference citations), and a summary compliance score. Respond in markdown table format for the scorecard, followed by a summary paragraph. \n\n"

\* Lines 150-156
user_prompt(text) == <<ReviewInstructions, "Form Content:", "\n">> \o text

\* Line 148
NotInitializedMsg ==
    <<"Error: Llama Stack agent not initialized. Please check your configuration.">>

\* Line 167
ReviewErrorMsg(e) == <<"Error generating scorecard: ", e>>

\* NotReady with the check left out
NotReadyUnchecked == FALSE

\* Line 147: if not st.session_state.agent or not st.session_state.session_id
NotReady == Falsy(ss.agent) \/ Falsy(ss.session_id)

\* Lines 160-164: the arguments of agent.create_turn
TurnCall(text) ==
    [op |-> "create_turn", agent |-> ss.agent, session_id |-> ss.session_id,
     stream |-> FALSE,
     messages |-> << [role |-> "user", content |-> user_prompt(text)] >>]

\* Lines 143-164: generate_scorecard up to the remote call
GenerateScorecard(text) ==
    IF NotReady
       THEN /\ scorecard_report' = NotInitializedMsg
            /\ page' = "results"
            /\ pc' = "done"
            /\ UNCHANGED turnCalls
       ELSE /\ turnCalls' = Append(turnCalls, TurnCall(text))
            /\ pc' = "create_turn"
            /\ UNCHANGED <<scorecard_report, page>>

\* MissingRequired without the menu
MissingRequiredNoMenu(f) == Falsy(f.business_name) \/ Falsy(f.commissary)

\* Line 266: if not business_name or not commissary or not menu
MissingRequired(f) ==
    Falsy(f.business_name) \/ Falsy(f.commissary) \/ Falsy(f.menu)

\* Lines 265-279: the handler of a submitted form
Submit(f) ==
    /\ submit_button' = TRUE
    /\ form' = f
    /\ IF MissingRequired(f)
          THEN /\ page' = "validation_error"
               /\ pc' = "done"
               /\ UNCHANGED <<turnCalls, scorecard_report>>
          ELSE GenerateScorecard(Strip(application_form_text(f)))
    /\ UNCHANGED <<ss, response, hadReviewError>>
    /\ UNCHANGED provVars
    /\ UNCHANGED initUi

\* What the user may type in the application runs
FormChars == {"a", " "}
Forms ==
    [business_name : Str(FormChars, FormLen), commissary : Str(FormChars, FormLen),
     menu : Str(FormChars, FormLen), additional_info : Str(FormChars, FormLen)]

\* Line 215 with the flag set, lines 226-279: the form is shown and submitted
SubmitForm ==
    /\ pc = "main"
    /\ ss.initialized
    /\ \E f \in Forms : Submit(f)

\* Line 215 with the flag set, line 265 with submit_button false
ShowForm ==
    /\ pc = "main"
    /\ ss.initialized
    /\ page' = "form"
    /\ pc' = "done"
    /\ UNCHANGED <<ss>>
    /\ UNCHANGED provVars
    /\ UNCHANGED initUi
    /\ UNCHANGED reviewVars

\* Lines 349-351: the flag is not set
NotInitializedPage ==
    /\ pc = "main"
    /\ ~ss.initialized
    /\ page' = "not_initialized"
    /\ pc' = "done"
    /\ UNCHANGED <<ss>>
    /\ UNCHANGED provVars
    /\ UNCHANGED initUi
    /\ UNCHANGED reviewVars

\* What the remote create_turn may do: answer, fail, or answer without output_message
Responses ==
    {[kind |-> "ok", content |-> c, exc |-> ""] : c \in Contents}
    \cup {[kind |-> "raise", content |-> None, exc |-> e] : e \in RemoteErrors \cup {"AttributeError"}}

\* ReturnedContent with the text tidied before it is returned
ReturnedContentStripped(r) == Strip(r.content)

\* Line 165: return response.output_message.content
ReturnedContent(r) == r.content

\* CreateTurn with the session dropped when the remote call fails
CreateTurnDropsSession ==
    /\ pc = "create_turn"
    /\ \E r \in Responses :
         /\ response' = r
         /\ IF r.kind = "ok"
               THEN /\ scorecard_report' = ReturnedContent(r)
                    /\ ss' = ss
               ELSE /\ scorecard_report' = ReviewErrorMsg(r.exc)
                    /\ ss' = SessionDefaults
         /\ hadReviewError' = (hadReviewError \/ r.kind # "ok")
    /\ pc' = "done"
    /\ page' = "results"
    /\ UNCHANGED <<submit_button, form, turnCalls>>
    /\ UNCHANGED provVars
    /\ UNCHANGED initUi

\* Lines 158-167: the remote call returns or raises
CreateTurn ==
    /\ pc = "create_turn"
    /\ \E r \in Responses :
         /\ response' = r
         /\ IF r.kind = "ok"
               THEN /\ scorecard_report' = ReturnedContent(r)
                    /\ pc' = "done"
                    /\ UNCHANGED hadReviewError
               ELSE IF Caught(r.exc)
                       THEN /\ scorecard_report' = ReviewErrorMsg(r.exc)
                            /\ pc' = "done"
                            /\ hadReviewError' = TRUE
                       ELSE /\ pc' = "crashed"
                            /\ UNCHANGED <<scorecard_report, hadReviewError>>
    /\ page' = "results"
    /\ UNCHANGED <<ss, submit_button, form, turnCalls>>
    /\ UNCHANGED provVars
    /\ UNCHANGED initUi

\* The next script run: only st.session_state is kept
Rerun ==
    /\ pc \in {"done", "crashed"}
    /\ pc' = "start"
    /\ init_result' = "none"
    /\ init_error' = None
    /\ submit_button' = FALSE
    /\ form' = NoForm
    /\ page' = "none"
    /\ turnCalls' = <<>>
    /\ response' = NoResponse
    /\ scorecard_report' = None
    /\ UNCHANGED <<ss, hadReviewError>>
    /\ UNCHANGED provVars

Next ==
    \/ InitGuardSkip
    \/ BeginInitialize
    \/ ListModels
    \/ RegisterVectorDb
    \/ InsertDocuments
    \/ CreateAgent
    \/ CreateSession
    \/ SubmitForm
    \/ ShowForm
    \/ NotInitializedPage
    \/ CreateTurn
    \/ Rerun

Spec == Init /\ [][Next]_vars

---------------------------------------------------------------------------
\* generate_scorecard called by a caller that does not go through the gate of
\* line 215 nor the validation of line 266, with any text

Texts == Str(FormChars, FormLen) \cup {Strip(application_form_text(f)) : f \in {NoForm}}

DirectReview ==
    /\ pc = "main"
    /\ \E text \in Texts : GenerateScorecard(text)
    /\ UNCHANGED <<ss, submit_button, form, response, hadReviewError>>
    /\ UNCHANGED provVars
    /\ UNCHANGED initUi

NextAPI == Next \/ DirectReview

SpecAPI == Init /\ [][NextAPI]_vars

---------------------------------------------------------------------------
\* The rendering of the prompt, on longer and multi-line field values

\* st.text_input gives one line, st.text_area may hold line breaks
InputChars == {"a", " "}
AreaChars == {"a", " ", "\n"}

ExampleForm ==
    [business_name |-> <<"Taco Co">>, commissary |-> <<"123 Main St Kitchen">>,
     menu |-> <<"Tacos, Burritos">>, additional_info |-> <<>>]

RenderForms ==
    [business_name : Str(InputChars, FormLen) \cup {ExampleForm.business_name},
     commissary : Str(InputChars, FormLen) \cup {ExampleForm.commissary},
     menu : Str(AreaChars, MaxLen) \cup {ExampleForm.menu},
     additional_info : Str(AreaChars, MaxLen)]

\* The state of a run that has passed the guard after a first, successful attempt
InitRender ==
    /\ pc = "main"
    /\ ss = [client |-> <<"client", BaseUrl, 1>>, agent |-> <<"agent", 1>>,
             session_id |-> <<"session", 1>>, vector_db_id |-> <<"v", 1>>,
             initialized |-> TRUE]
    /\ loc = NoLocals
    /\ attempt = 1
    /\ uuid = 2
    /\ calls =
         << [op |-> "list_models", ok |-> TRUE, args |-> <<>>, result |-> <<LlmModel, EmbModelB, EmbModelA>>],
            [op |-> "register_vector_index", ok |-> TRUE,
             args |-> << <<"v", 1>>, <<EmbModelB.identifier>> >>, result |-> <<>>],
            [op |-> "ingest_documents", ok |-> TRUE,
             args |-> << <<"v", 1>>, documents, ChunkSize >>, result |-> <<>>],
            [op |-> "create_agent", ok |-> TRUE,
             args |-> <<ModelId, AgentInstructions, tool_groups(<<"v", 1>>)>>,
             result |-> <<"agent", 1>>],
            [op |-> "create_session", ok |-> TRUE,
             args |-> << <<"agent", 1>>, <<"s-", 2>> >>, result |-> <<"session", 1>>] >>
    /\ prevIds = {}
    /\ lastFail = "none"
    /\ hadReviewError = FALSE
    /\ init_result = "skipped"
    /\ init_error = None
    /\ submit_button = FALSE
    /\ form = NoForm
    /\ page = "none"
    /\ turnCalls = <<>>
    /\ response = NoResponse
    /\ scorecard_report = None

SubmitRendered ==
    /\ pc = "main"
    /\ ss.initialized
    /\ \E f \in RenderForms : Submit(f)

NextRender == SubmitRendered

SpecRender == InitRender /\ [][NextRender]_vars

---------------------------------------------------------------------------
\* Properties

ProvisionOrder ==
    <<"list_models", "register_vector_index", "ingest_documents", "create_agent",
      "create_session">>

Ops(log) == [i \in 1..Len(log) |-> log[i].op]

\* In a script run, between the start of initialize_llama_stack and its return
Provisioning == pc \in {"list_models", "register", "insert", "create_agent", "create_session"}

RequiredFilled ==
    /\ form.business_name # <<>>
    /\ form.commissary # <<>>
    /\ form.menu # <<>>

\* C1: the ready flag is set only when the latest attempt issued all five calls and
\* every one succeeded, and then the four handles in st.session_state are those of
\* that attempt; while the flag is not set, every field still has its default.
C1_AllOrNothing ==
    /\ ss.initialized =>
         /\ Ops(calls) = ProvisionOrder
         /\ \A i \in 1..Len(calls) : calls[i].ok
         /\ ss.client = <<"client", BaseUrl, attempt>>
         /\ ss.vector_db_id = calls[2].args[1]
         /\ ss.vector_db_id = calls[3].args[1]
         /\ calls[4].args[3][1].vector_db_ids = <<ss.vector_db_id>>
         /\ ss.agent = calls[4].result
         /\ calls[5].args[1] = ss.agent
         /\ ss.session_id = calls[5].result
    /\ ~ss.initialized => ss = SessionDefaults

\* Ready after an earlier attempt of the same browser session has failed
C1_Witness == ss.initialized /\ attempt = 2 /\ pc = "main"

\* C2: once the flag is set, each provisioning call has been issued exactly once by
\* the attempt that set it, and no later step of any run issues another one or
\* writes st.session_state.
C2_ProvisionOnce ==
    /\ [](ss.initialized =>
            \A o \in {ProvisionOrder[k] : k \in 1..Len(ProvisionOrder)} :
                Cardinality({i \in 1..Len(calls) : calls[i].op = o}) = 1)
    /\ [][ss.initialized => (calls' = calls /\ attempt' = attempt /\ uuid' = uuid /\ ss' = ss)]_vars

\* A later run has passed the guard of a ready session
C2_Witness == ss.initialized /\ init_result = "skipped" /\ pc = "main" /\ Len(calls) = 5

\* C3: after a failure of the ingestion call the function has returned False through
\* its handler and st.session_state still holds its defaults; the next attempt has a
\* new client and a vector_db_id no earlier attempt used, and its calls start again
\* with list_models.
C3_IngestFailureRetry ==
    lastFail = "ingest_documents" =>
        /\ pc # "crashed"
        /\ ss = SessionDefaults
        /\ (~Provisioning /\ pc # "start") => (init_result = "False" /\ init_error # None)
        /\ (~Provisioning /\ calls # <<>>) =>
              (Ops(calls) = SubSeq(ProvisionOrder, 1, 3) /\ ~calls[3].ok)
        /\ Provisioning =>
              /\ attempt >= 2
              /\ loc.client = <<"client", BaseUrl, attempt>>
              /\ loc.vector_db_id \notin prevIds
              /\ Ops(calls) = SubSeq(ProvisionOrder, 1, Len(calls))
              /\ (pc = "list_models" => calls = <<>>)

\* The attempt after a failed ingestion has come as far as its last call
C3_Witness == lastFail = "ingest_documents" /\ pc = "create_session" /\ Len(calls) = 4

\* The catalog returned by list_models had no embedding model
NoEmbeddingListed ==
    /\ calls # <<>>
    /\ calls[1].op = "list_models"
    /\ calls[1].ok
    /\ \A i \in 1..Len(calls[1].result) : calls[1].result[i].model_type # "embedding"

\* C4: when the catalog has no embedding model, list_models is the only call of the
\* attempt, the script run goes on, the function has returned False with the error
\* shown, and the flag is not set.
C4_NoEmbeddingModel ==
    NoEmbeddingListed =>
        /\ Len(calls) = 1
        /\ ~Provisioning
        /\ pc # "crashed"
        /\ ~ss.initialized
        /\ lastFail = "list_models"
        /\ pc \in {"main", "done"} =>
              (init_result = "False"
               /\ init_error = <<"Error initializing Llama Stack: ", "StopIteration">>)

\* A catalog with a model, none of them an embedding model
C4_Witness ==
    NoEmbeddingListed /\ calls[1].result = <<LlmModel>> /\ page = "not_initialized"

\* C5: while the flag is not set no create_turn call is issued or in flight, and a
\* call of generate_scorecard has returned the not-initialized error.
C5_NotReadyNoTurn ==
    ~ss.initialized =>
        /\ turnCalls = <<>>
        /\ pc # "create_turn"
        /\ response = NoResponse
        /\ scorecard_report # None => scorecard_report = NotInitializedMsg

\* generate_scorecard was called after a failed attempt, on a session not ready
C5_Witness ==
    ~ss.initialized /\ lastFail # "none" /\ scorecard_report = NotInitializedMsg

\* C6: a submitted form with the three required fields filled, on a ready session,
\* has issued exactly one create_turn call, for the agent and session of
\* st.session_state and with stream false, and what generate_scorecard returns on
\* success is the content of the response.
C6_OneTurnVerbatim ==
    (ss.initialized /\ submit_button /\ RequiredFilled) =>
        /\ Len(turnCalls) = 1
        /\ turnCalls[1].op = "create_turn"
        /\ turnCalls[1].agent = ss.agent
        /\ turnCalls[1].session_id = ss.session_id
        /\ turnCalls[1].stream = FALSE
        /\ Len(turnCalls[1].messages) = 1
        /\ response.kind = "ok" => (pc = "done" /\ scorecard_report = response.content)
        /\ (pc = "done") => response # NoResponse

\* A response whose content starts and ends with whitespace was returned as it is
C6_Witness ==
    /\ ss.initialized /\ submit_button /\ RequiredFilled
    /\ response.kind = "ok"
    /\ scorecard_report = <<" ", "Score: 80%", "\n">>

\* C7: no step of the main content area or of generate_scorecard changes
\* st.session_state; a failed create_turn ends in the error text as the return
\* value with the run going on, and the session keeps its agent and session id.
C7_ReviewFrame ==
    /\ [][(pc \in {"main", "create_turn"}) => (ss' = ss)]_vars
    /\ [](response.kind = "raise" =>
            /\ pc = "done"
            /\ scorecard_report = <<"Error generating scorecard: ", response.exc>>)
    /\ [](hadReviewError =>
            (ss.initialized /\ ss.agent # None /\ ss.session_id # None))

\* A review has succeeded on a session on which an earlier review had failed
C7_Witness ==
    /\ hadReviewError
    /\ response.kind = "ok"
    /\ scorecard_report = response.content
    /\ Len(turnCalls) = 1

\* C8: the calls of an attempt are a prefix of the fixed order, only the last one
\* may have failed, the attempt is over once one has failed, and the index that
\* documents are inserted into is the one registered before.
C8_CallOrder ==
    /\ Len(calls) <= Len(ProvisionOrder)
    /\ Ops(calls) = SubSeq(ProvisionOrder, 1, Len(calls))
    /\ \A i \in 1..Len(calls) : ~calls[i].ok => (i = Len(calls) /\ ~Provisioning)
    /\ Len(calls) >= 3 => (calls[2].ok /\ calls[3].args[1] = calls[2].args[1])
    /\ Provisioning => ProvisionOrder[Len(calls) + 1] =
          CASE pc = "list_models" -> "list_models"
            [] pc = "register" -> "register_vector_index"
            [] pc = "insert" -> "ingest_documents"
            [] pc = "create_agent" -> "create_agent"
            [] pc = "create_session" -> "create_session"

\* An attempt that ended at a failed index registration
C8_Witness == Len(calls) = 2 /\ ~calls[2].ok /\ pc = "main" /\ init_result = "False"

\* Text without its trailing whitespace
RECURSIVE TrimRight(_)
TrimRight(s) ==
    IF s = <<>> THEN s
    ELSE IF s[Len(s)] \in {" ", "\n", "\t"} THEN TrimRight(SubSeq(s, 1, Len(s) - 1))
    ELSE s

\* C9: the content of the message sent is the instruction template followed by the
\* four lines Business Name, Commissary, Menu, Additional Information in this order,
\* each label followed by the field as typed, the last by the additional information
\* without trailing whitespace (nothing when it is empty or blank).
C9_PromptLines ==
    turnCalls # <<>> =>
        LET info == TrimRight(form.additional_info) IN
        turnCalls[1].messages[1].content =
            <<ReviewInstructions, "Form Content:", "\n">>
            \o <<"Business Name:", " ">> \o form.business_name \o <<"\n">>
            \o <<"Commissary:", " ">> \o form.commissary \o <<"\n">>
            \o <<"Menu:", " ">> \o form.menu \o <<"\n">>
            \o <<"Additional Information:">>
            \o (IF info = <<>> THEN <<>> ELSE <<" ">> \o info)

\* The submission of the spec's example
C9_Witness ==
    /\ form = ExampleForm
    /\ turnCalls # <<>>
    /\ turnCalls[1].messages[1].content =
         <<ReviewInstructions, "Form Content:", "\n",
           "Business Name:", " ", "Taco Co", "\n",
           "Commissary:", " ", "123 Main St Kitchen", "\n",
           "Menu:", " ", "Tacos, Burritos", "\n",
           "Additional Information:">>

\* C10: a submitted form with an empty required field ends the run at the
\* validation error with no create_turn call and no report; with the required
\* fields filled and the additional information empty the call is issued.
C10_Validation ==
    submit_button =>
        /\ ~RequiredFilled =>
              /\ turnCalls = <<>>
              /\ scorecard_report = None
              /\ response = NoResponse
              /\ page = "validation_error"
              /\ pc = "done"
        /\ (RequiredFilled /\ form.additional_info = <<>>) => Len(turnCalls) = 1

\* Only the menu is missing
C10_Witness ==
    /\ submit_button
    /\ form.business_name # <<>> /\ form.commissary # <<>> /\ form.menu = <<>>
    /\ page = "validation_error"

====
